---------------------------- MODULE Spec2Model ----------------------------
(***************************************************************************)
(* Model of the scheduling MCP server (src/src/server.py) and of the       *)
(* interval algebra of the calendar module (src/src/google_calendar.py).   *)
(*                                                                         *)
(* Four specifications share the variables:                                *)
(*   Spec       tool calls served one at a time                            *)
(*   ConcSpec   tool calls interleaved statement by statement              *)
(*   MergeSpec  merge_intervals applied to bounded interval lists          *)
(*   FreeSpec   get_free_intervals applied to bounded lists and windows    *)
(***************************************************************************)
EXTENDS Integers, Sequences, FiniteSets, TLC

VARIABLES
    scheduling_requests, \* server.py:19  request id -> record
    pc,                  \* position of each worker inside its tool call
    op,                  \* tool the worker is (or was last) running
    request_id,          \* the call's request_id (argument or generated)
    selected_slot_index, \* argument of reply_scheduling_email
    selected_slot,       \* local of reply_scheduling_email (line 143)
    email_sent,          \* local email_sent (lines 109, 170)
    result,              \* value returned by the worker's last call
    last_update,         \* per request: index written by the latest line 148
    calls,               \* number of tool calls started so far
    cal_pc,              \* position in the calendar computation
    intervals,           \* the list handed to merge_intervals
    merged,              \* merge_intervals(intervals)
    remerged,            \* merge_intervals(merged)
    window,              \* <<start_time, end_time>> of get_free_intervals
    free_intervals       \* get_free_intervals(intervals, start, end)

srv_vars == <<scheduling_requests, pc, op, request_id, selected_slot_index,
              selected_slot, email_sent, result, last_update, calls>>
cal_vars == <<cal_pc, intervals, merged, remerged, window, free_intervals>>
vars == <<srv_vars, cal_vars>>

---------------------------------------------------------------------------
(* Bounds of the model *)

\* longest interval list handed to merge_intervals
MaxLen == 3
\* longest busy list handed to get_free_intervals
MaxBusy == 2
\* instants are the multiples of TimeStep minutes up to MaxTick * TimeStep
TimeStep == 15
MaxTick == 6

---------------------------------------------------------------------------
(* google_calendar.py: interval algebra.  An interval is <<start, end>>,   *)
(* both in minutes.                                                        *)

MINIMUM_INTERVAL_MINUTES == 30

Times == {t * TimeStep : t \in 0..MaxTick}
Intervals == {iv \in Times \X Times : iv[1] <= iv[2]}

Min(a, b) == IF a <= b THEN a ELSE b
Max(a, b) == IF a >= b THEN a ELSE b

\* list.sort(key=lambda x: x[0]): a stable sort by start.  The element at
\* position i of s moves to the position given by the number of elements
\* that sort before it (smaller start, or equal start and earlier position).
SortByStartUnsorted(s) == s
SortByStart(s) ==
    LET rank(i) == Cardinality({j \in 1..Len(s) :
                        \/ s[j][1] < s[i][1]
                        \/ s[j][1] = s[i][1] /\ j < i}) + 1
    IN [k \in 1..Len(s) |-> s[CHOOSE i \in 1..Len(s) : rank(i) = k]]

\* line 56: the test that makes the walk extend the current interval
ShouldMergeNoGap(current_end, next_start) == current_end >= next_start
ShouldMerge(current_end, next_start) ==
    current_end + MINIMUM_INTERVAL_MINUTES >= next_start

\* lines 52-66: the walk over intervals[1:] with the accumulator
\* current_interval and the output list merged
RECURSIVE MergeWalk(_, _, _)
MergeWalk(rest, current_interval, out) ==
    IF rest = << >> THEN Append(out, current_interval)
    ELSE LET next == Head(rest)
         IN IF ShouldMerge(current_interval[2], next[1])
            THEN MergeWalk(Tail(rest),
                           <<Min(current_interval[1], next[1]),
                             Max(current_interval[2], next[2])>>,
                           out)
            ELSE MergeWalk(Tail(rest), next, Append(out, current_interval))

merge_intervals(ivs) ==
    IF ivs = << >> THEN << >>
    ELSE LET sorted == SortByStart(ivs)
         IN MergeWalk(Tail(sorted), Head(sorted), << >>)

\* lines 81-84: the sweep over the merged busy intervals; the result is
\* <<free_intervals, last_end>>
RECURSIVE FreeSweep(_, _, _)
FreeSweep(busy, last_end, out) ==
    IF busy = << >> THEN <<out, last_end>>
    ELSE LET b == Head(busy)
             out1 == IF last_end < b[1] THEN Append(out, <<last_end, b[1]>>)
                     ELSE out
         IN FreeSweep(Tail(busy), Max(last_end, b[2]), out1)

\* lines 86-87: the free time left after the last busy interval
AppendTrailingNever(out, last_end, end_time) == out
AppendTrailing(out, last_end, end_time) ==
    IF last_end < end_time THEN Append(out, <<last_end, end_time>>) ELSE out

get_free_intervals(busy_intervals, start_time, end_time) ==
    IF busy_intervals = << >> THEN << <<start_time, end_time>> >>
    ELSE LET sw == FreeSweep(merge_intervals(busy_intervals), start_time, << >>)
         IN AppendTrailing(sw[1], sw[2], end_time)


---------------------------------------------------------------------------
(* Calendar computations as state machines over bounded inputs *)

\* the caller appends one more interval to the list it will hand over
AddInterval(limit) ==
    /\ cal_pc = "input"
    /\ Len(intervals) < limit
    /\ \E iv \in Intervals : intervals' = Append(intervals, iv)
    /\ UNCHANGED <<cal_pc, merged, remerged, window, free_intervals, srv_vars>>

Windows == {w \in Times \X Times : w[1] <= w[2]}

\* merge_intervals(intervals); the sort at line 47 reorders the caller's list
CallMerge ==
    /\ cal_pc = "input"
    /\ merged' = merge_intervals(intervals)
    /\ intervals' = IF intervals = << >> THEN intervals ELSE SortByStart(intervals)
    /\ cal_pc' = "merged"
    /\ UNCHANGED <<remerged, window, free_intervals, srv_vars>>

\* merge_intervals(merged): the function applied to its own output
CallMergeAgain ==
    /\ cal_pc = "merged"
    /\ remerged' = merge_intervals(merged)
    /\ merged' = IF merged = << >> THEN merged ELSE SortByStart(merged)
    /\ cal_pc' = "remerged"
    /\ UNCHANGED <<intervals, window, free_intervals, srv_vars>>

\* get_free_intervals(intervals, window[1], window[2]); merged records the
\* merged busy list of line 77
CallGetFree ==
    /\ cal_pc = "input"
    /\ free_intervals' = get_free_intervals(intervals, window[1], window[2])
    /\ merged' = merge_intervals(intervals)
    /\ intervals' = IF intervals = << >> THEN intervals ELSE SortByStart(intervals)
    /\ cal_pc' = "free"
    /\ UNCHANGED <<remerged, window, srv_vars>>

---------------------------------------------------------------------------
(* server.py: the request store and the three tools *)

\* tool calls started in one behaviour
MaxCalls == 3
\* requests created in one behaviour
MaxRequests == 2
\* latest day (counted from day 0) on which a proposal is sent
MaxDay == 1

\* range(1, 8) and range(9, 17) of generate_available_slots
FirstDay == 1
LastDay == 7
FirstHour == 9
LastHour == 16

\* the workers that serve tool calls
Workers == {1, 2}
Emails == {"guest@example.com"}

\* a Python dict d with d[k] = v executed on it
Put(d, k, v) == [x \in DOMAIN d \cup {k} |-> IF x = k THEN v ELSE d[x]]
\* d.get(k, default)
Get(d, k, default) == IF k \in DOMAIN d THEN d[k] ELSE default

HoursPerDay == LastHour - FirstHour + 1
NumSlots == (LastDay - FirstDay + 1) * HoursPerDay

\* lines 33-42: one slot per business hour of each of the next 7 days, in
\* day-major order; a slot is the UTC datetime of day `day`, `hour`:00:00
generate_available_slots(now) ==
    [k \in 1..NumSlots |->
        [day  |-> now + FirstDay + ((k - 1) \div HoursPerDay),
         hour |-> FirstHour + ((k - 1) % HoursPerDay)]]

\* datetime.isoformat() of a timezone-aware UTC datetime with zero minutes,
\* seconds and microseconds: "<date>T<hh>:00:00+00:00"
isoformat(slot) ==
    <<"date", slot.day, "T", slot.hour, ":00:00", "+00:00">>

\* slot + timedelta(hours=1); LastHour + 1 = 17 stays within the day
PlusOneHour(slot) == [slot EXCEPT !.hour = @ + 1]

\* list[i] of Python: a negative i counts from the end; IndexError outside
\* -len .. len-1
IndexError(s, i) == i < -Len(s) \/ i >= Len(s)
GetItem(s, i) == IF i >= 0 THEN s[i + 1] ELSE s[Len(s) + i + 1]

\* line 88: uuid.uuid4(), an id no earlier call was given (records are never
\* removed, so the number of records so far names a fresh one)
ReusedRequestId(store) == 1
FreshRequestId(store) == Cardinality(DOMAIN store) + 1

\* lines 92-97
NewRequest(target_email, available_slots, now) ==
    [target_email    |-> target_email,
     available_slots |-> available_slots,
     status          |-> "pending",
     created_at      |-> now]

\* line 148
SetSelectedSlotOnce(request, slot) ==
    IF "selected_slot" \in DOMAIN request THEN request
    ELSE Put(request, "selected_slot", isoformat(slot))
SetStatusFirst(request, slot) == Put(request, "status", "scheduled")
SetSelectedSlot(request, slot) == Put(request, "selected_slot", isoformat(slot))

\* line 149
SetScheduled(request) == Put(request, "status", "scheduled")

\* line 177: the test that decides whether the meeting is saved
ShouldSaveAlways(sent) == TRUE
ShouldSave(sent) == sent

\* lines 112-117 and 119-123: what send_scheduling_email returns
SendSuccessResult(rid, available_slots) ==
    [status |-> "success", message |-> "Scheduling email sent successfully",
     request_id |-> rid, available_slots_count |-> Len(available_slots)]
SendFailureResultNoId(rid) ==
    [status |-> "error", message |-> "Failed to send scheduling email"]
SendFailureResult(rid) ==
    [status |-> "error", message |-> "Failed to send scheduling email",
     request_id |-> rid]

\* lines 224-225: the store after save_scheduled_meetup(meeting_data)
MarkSaved(store, rid) ==
    IF rid \in DOMAIN store
    THEN [store EXCEPT ![rid] = Put(@, "calendar_saved", TRUE)]
    ELSE store

\* lines 227-231
SaveResult(meeting_data) ==
    [success |-> TRUE, message |-> "Meeting saved to calendar",
     meeting_data |-> meeting_data]

NoResult == [none |-> TRUE]
NoSlot == [day |-> 0, hour |-> 0]

SrvInit ==
    /\ scheduling_requests = << >>
    /\ pc = [w \in Workers |-> "idle"]
    /\ op = [w \in Workers |-> "none"]
    /\ request_id = [w \in Workers |-> 0]
    /\ selected_slot_index = [w \in Workers |-> 0]
    /\ selected_slot = [w \in Workers |-> NoSlot]
    /\ email_sent = [w \in Workers |-> FALSE]
    /\ result = [w \in Workers |-> NoResult]
    /\ last_update = << >>
    /\ calls = 0

CalIdle ==
    /\ cal_pc = "off"
    /\ intervals = << >>
    /\ merged = << >>
    /\ remerged = << >>
    /\ window = <<0, 0>>
    /\ free_intervals = << >>

---------------------------------------------------------------------------
(* Tool calls.  A worker takes a call when idle and runs it statement by   *)
(* statement; send_email (lines 44-75) reports delivery as True or False,  *)
(* which the environment decides.                                          *)

RequestIdArgs == 0..MaxRequests
SlotIndices == {-(NumSlots + 1), -NumSlots, -1, 0, 1, NumSlots - 1, NumSlots}

AllIdle == \A w \in Workers : pc[w] = "idle"

Begin(w, tool, rid, idx, first) ==
    /\ pc[w] = "idle"
    /\ calls < MaxCalls
    /\ calls' = calls + 1
    /\ op' = [op EXCEPT ![w] = tool]
    /\ request_id' = [request_id EXCEPT ![w] = rid]
    /\ selected_slot_index' = [selected_slot_index EXCEPT ![w] = idx]
    /\ selected_slot' = [selected_slot EXCEPT ![w] = NoSlot]
    /\ email_sent' = [email_sent EXCEPT ![w] = FALSE]
    /\ result' = [result EXCEPT ![w] = NoResult]
    /\ pc' = [pc EXCEPT ![w] = first]
    /\ UNCHANGED <<scheduling_requests, last_update, cal_vars>>

InvokeSend(w) ==
    /\ Cardinality(DOMAIN scheduling_requests) < MaxRequests
    /\ Begin(w, "send_scheduling_email", 0, 0, "send_store")

InvokeReply(w) ==
    \E rid \in RequestIdArgs, idx \in SlotIndices :
        Begin(w, "reply_scheduling_email", rid, idx, "reply_lookup")

InvokeSave(w) ==
    \E rid \in RequestIdArgs :
        Begin(w, "save_scheduled_meetup", rid, 0, "save")

Return(w, value) ==
    /\ result' = [result EXCEPT ![w] = value]
    /\ pc' = [pc EXCEPT ![w] = "idle"]

\* send_scheduling_email, lines 88-97
SendStore(w) ==
    /\ pc[w] = "send_store"
    /\ \E target_email \in Emails, now \in 0..MaxDay :
         LET rid == FreshRequestId(scheduling_requests)
         IN /\ scheduling_requests' =
                  Put(scheduling_requests, rid,
                      NewRequest(target_email, generate_available_slots(now), now))
            /\ last_update' = Put(last_update, rid, << >>)
            /\ request_id' = [request_id EXCEPT ![w] = rid]
    /\ pc' = [pc EXCEPT ![w] = "send_mail"]
    /\ UNCHANGED <<op, selected_slot_index, selected_slot, email_sent, result,
                   calls, cal_vars>>

\* send_scheduling_email, lines 109-123
SendMail(w) ==
    /\ pc[w] = "send_mail"
    /\ \E sent \in BOOLEAN :
         /\ email_sent' = [email_sent EXCEPT ![w] = sent]
         /\ IF sent
            THEN Return(w, SendSuccessResult(request_id[w],
                     scheduling_requests[request_id[w]].available_slots))
            ELSE Return(w, SendFailureResult(request_id[w]))
    /\ UNCHANGED <<scheduling_requests, op, request_id, selected_slot_index,
                   selected_slot, last_update, calls, cal_vars>>

\* reply_scheduling_email, lines 137-140
ReplyLookup(w) ==
    /\ pc[w] = "reply_lookup"
    /\ IF request_id[w] \notin DOMAIN scheduling_requests
       THEN Return(w, [status |-> "error", message |-> "Invalid request ID"])
       ELSE /\ pc' = [pc EXCEPT ![w] = "reply_index"]
            /\ UNCHANGED result
    /\ UNCHANGED <<scheduling_requests, op, request_id, selected_slot_index,
                   selected_slot, email_sent, last_update, calls, cal_vars>>

\* reply_scheduling_email, lines 142-145
ReplyIndex(w) ==
    /\ pc[w] = "reply_index"
    /\ LET slots == scheduling_requests[request_id[w]].available_slots
           i == selected_slot_index[w]
       IN IF IndexError(slots, i)
          THEN /\ Return(w, [status |-> "error",
                             message |-> "Invalid time slot index"])
               /\ UNCHANGED selected_slot
          ELSE /\ selected_slot' = [selected_slot EXCEPT ![w] = GetItem(slots, i)]
               /\ pc' = [pc EXCEPT ![w] = "reply_set_slot"]
               /\ UNCHANGED result
    /\ UNCHANGED <<scheduling_requests, op, request_id, selected_slot_index,
                   email_sent, last_update, calls, cal_vars>>

\* reply_scheduling_email, line 148
ReplySetSlot(w) ==
    /\ pc[w] = "reply_set_slot"
    /\ scheduling_requests' =
         [scheduling_requests EXCEPT
            ![request_id[w]] = SetSelectedSlot(@, selected_slot[w])]
    /\ last_update' =
         [last_update EXCEPT ![request_id[w]] = <<selected_slot_index[w]>>]
    /\ pc' = [pc EXCEPT ![w] = "reply_set_status"]
    /\ UNCHANGED <<op, request_id, selected_slot_index, selected_slot,
                   email_sent, result, calls, cal_vars>>

\* reply_scheduling_email, line 149
ReplySetStatus(w) ==
    /\ pc[w] = "reply_set_status"
    /\ scheduling_requests' =
         [scheduling_requests EXCEPT ![request_id[w]] = SetScheduled(@)]
    /\ pc' = [pc EXCEPT ![w] = "reply_mail"]
    /\ UNCHANGED <<op, request_id, selected_slot_index, selected_slot,
                   email_sent, result, last_update, calls, cal_vars>>

\* reply_scheduling_email, lines 170-177 and 193-198
ReplyMail(w) ==
    /\ pc[w] = "reply_mail"
    /\ \E sent \in BOOLEAN :
         /\ email_sent' = [email_sent EXCEPT ![w] = sent]
         /\ IF ShouldSave(sent)
            THEN /\ pc' = [pc EXCEPT ![w] = "reply_save"]
                 /\ UNCHANGED result
            ELSE Return(w, [status |-> "error",
                            message |-> "Failed to send confirmation email",
                            meeting_time |-> isoformat(selected_slot[w])])
    /\ UNCHANGED <<scheduling_requests, op, request_id, selected_slot_index,
                   selected_slot, last_update, calls, cal_vars>>

\* reply_scheduling_email, lines 179-192, with the call of
\* save_scheduled_meetup (lines 216-231) it makes
ReplySave(w) ==
    /\ pc[w] = "reply_save"
    /\ LET meeting_data ==
               [request_id |-> request_id[w],
                email      |-> scheduling_requests[request_id[w]].target_email,
                start_time |-> isoformat(selected_slot[w]),
                end_time   |-> isoformat(PlusOneHour(selected_slot[w])),
                title      |-> "Scheduled Meeting"]
           save_result == SaveResult(meeting_data)
       IN /\ scheduling_requests' = MarkSaved(scheduling_requests, request_id[w])
          /\ Return(w, [status |-> "success",
                        message |-> "Meeting scheduled successfully",
                        meeting_time |-> isoformat(selected_slot[w]),
                        calendar_saved |-> Get(save_result, "success", FALSE)])
    /\ UNCHANGED <<op, request_id, selected_slot_index, selected_slot,
                   email_sent, last_update, calls, cal_vars>>

\* save_scheduled_meetup called as a tool, lines 216-231
Save(w) ==
    /\ pc[w] = "save"
    /\ scheduling_requests' = MarkSaved(scheduling_requests, request_id[w])
    /\ Return(w, SaveResult([request_id |-> request_id[w]]))
    /\ UNCHANGED <<op, request_id, selected_slot_index, selected_slot,
                   email_sent, last_update, calls, cal_vars>>

Start == \E w \in Workers : InvokeSend(w) \/ InvokeReply(w) \/ InvokeSave(w)

Step ==
    \E w \in Workers :
        \/ SendStore(w)
        \/ SendMail(w)
        \/ ReplyLookup(w)
        \/ ReplyIndex(w)
        \/ ReplySetSlot(w)
        \/ ReplySetStatus(w)
        \/ ReplyMail(w)
        \/ ReplySave(w)
        \/ Save(w)

---------------------------------------------------------------------------
(* Specifications *)

Init == SrvInit /\ CalIdle

\* one tool call at a time: a call starts only when every worker is idle
Next == (AllIdle /\ Start) \/ Step
Spec == Init /\ [][Next]_vars

\* calls of different workers interleave between any two statements
ConcNext == Start \/ Step
ConcSpec == Init /\ [][ConcNext]_vars

MergeInit ==
    /\ SrvInit
    /\ cal_pc = "input"
    /\ intervals = << >>
    /\ merged = << >>
    /\ remerged = << >>
    /\ window = <<0, 0>>
    /\ free_intervals = << >>
MergeNext == AddInterval(MaxLen) \/ CallMerge \/ CallMergeAgain
MergeSpec == MergeInit /\ [][MergeNext]_vars

FreeInit ==
    /\ SrvInit
    /\ cal_pc = "input"
    /\ intervals = << >>
    /\ merged = << >>
    /\ remerged = << >>
    /\ window \in Windows
    /\ free_intervals = << >>
FreeNext == AddInterval(MaxBusy) \/ CallGetFree
FreeSpec == FreeInit /\ [][FreeNext]_vars

---------------------------------------------------------------------------
(* Properties of the request store and the tools *)

\* worker w returns from reply_scheduling_email in this step
ReplyReturns(w) ==
    /\ op[w] = "reply_scheduling_email"
    /\ pc[w] # "idle"
    /\ pc'[w] = "idle"

\* the requests whose record carries calendar_saved
SavedRequests ==
    {rid \in DOMAIN scheduling_requests :
        "calendar_saved" \in DOMAIN scheduling_requests[rid]}

\* C1: a reply_scheduling_email call returns the "Invalid request ID" error
\* for every request id that is not in the store, and the "Invalid time slot
\* index" error for every index i < 0 or i >= len(available_slots) of a
\* stored request; the step that returns either error leaves the store
\* unchanged.
C1_SelectSlotErrors ==
    [][\A w \in Workers :
         ReplyReturns(w) =>
           LET rid == request_id[w]
               i == selected_slot_index[w]
           IN /\ rid \notin DOMAIN scheduling_requests =>
                   /\ result'[w].status = "error"
                   /\ result'[w].message = "Invalid request ID"
                   /\ scheduling_requests' = scheduling_requests
              /\ ( /\ rid \in DOMAIN scheduling_requests
                   /\ \/ i < 0
                      \/ i >= Len(scheduling_requests[rid].available_slots) ) =>
                   /\ result'[w].status = "error"
                   /\ result'[w].message = "Invalid time slot index"
                   /\ scheduling_requests' = scheduling_requests
      ]_vars

\* What the code does for C1: the index error is returned exactly for the
\* indices outside -len .. len-1, so -1 selects the last offered slot.
C1_IndexErrorRange ==
    [][\A w \in Workers :
         (ReplyReturns(w) /\ request_id[w] \in DOMAIN scheduling_requests) =>
           ( IndexError(scheduling_requests[request_id[w]].available_slots,
                        selected_slot_index[w])
             <=> /\ result'[w].message = "Invalid time slot index"
                 /\ scheduling_requests' = scheduling_requests
                 /\ pc[w] = "reply_index" )
      ]_vars

\* C2: when a reply_scheduling_email call with a known request id and an
\* index i in 0 .. len-1 returns, the record has status scheduled and
\* selected_slot is the ISO text of available_slots[i], whatever the record
\* held before the call (pending, or scheduled with another slot).
C2_ReplySchedules ==
    [][\A w \in Workers :
         ( /\ ReplyReturns(w)
           /\ request_id[w] \in DOMAIN scheduling_requests
           /\ selected_slot_index[w] >= 0
           /\ selected_slot_index[w] <
                Len(scheduling_requests[request_id[w]].available_slots) ) =>
           LET before == scheduling_requests[request_id[w]]
               after == scheduling_requests'[request_id[w]]
           IN /\ after.status = "scheduled"
              /\ "selected_slot" \in DOMAIN after
              /\ after.selected_slot =
                   isoformat(before.available_slots[selected_slot_index[w] + 1])
      ]_vars

\* C2 witness: two replies on the same request with different in-bounds
\* indices have both returned, and the record holds the slot of one of them
\* while the other call reported a different meeting time.
C2_Overwritten ==
    \E w1 \in Workers, w2 \in Workers :
        /\ w1 # w2
        /\ AllIdle
        /\ op[w1] = "reply_scheduling_email"
        /\ op[w2] = "reply_scheduling_email"
        /\ request_id[w1] = request_id[w2]
        /\ request_id[w1] \in DOMAIN scheduling_requests
        /\ "meeting_time" \in DOMAIN result[w1]
        /\ "meeting_time" \in DOMAIN result[w2]
        /\ selected_slot_index[w1] = 0
        /\ selected_slot_index[w2] = NumSlots - 1
        /\ result[w1].meeting_time # result[w2].meeting_time
        /\ scheduling_requests[request_id[w1]].status = "scheduled"
        /\ scheduling_requests[request_id[w1]].selected_slot =
             result[w2].meeting_time

\* C6: in reply_scheduling_email the meeting is saved only after the
\* confirmation email was reported delivered: a worker is at the save step
\* only with email_sent true; when delivery fails the call returns an error
\* result at once and the calendar_saved flags stay as they were; and a reply
\* call changes a calendar_saved flag only in its save step.
C6_NotifyBeforePersist ==
    [][\A w \in Workers :
         /\ pc'[w] = "reply_save" => email_sent'[w]
         /\ (pc[w] = "reply_mail" /\ pc'[w] # "reply_mail" /\ ~email_sent'[w]) =>
              /\ pc'[w] = "idle"
              /\ result'[w].status = "error"
              /\ SavedRequests' = SavedRequests
         /\ ( /\ op[w] = "reply_scheduling_email"
              /\ pc'[w] # pc[w]
              /\ SavedRequests' # SavedRequests ) =>
              (pc[w] = "reply_save" /\ email_sent[w])
      ]_vars

\* C6 witness: a reply call has returned the delivery error and the record,
\* already scheduled, carries no calendar_saved flag.
C6_DeliveryFailed ==
    \E w \in Workers :
        /\ pc[w] = "idle"
        /\ op[w] = "reply_scheduling_email"
        /\ result[w].status = "error"
        /\ result[w].message = "Failed to send confirmation email"
        /\ scheduling_requests[request_id[w]].status = "scheduled"
        /\ request_id[w] \notin SavedRequests

\* C7: in every step, every stored request stays stored; its status changes
\* only from pending to scheduled or from pending to error; and a scheduled
\* request is still scheduled after the step.
C7_StatusTransitions ==
    [][\A rid \in DOMAIN scheduling_requests :
         /\ rid \in DOMAIN scheduling_requests'
         /\ scheduling_requests'[rid].status # scheduling_requests[rid].status =>
              /\ scheduling_requests[rid].status = "pending"
              /\ scheduling_requests'[rid].status \in {"scheduled", "error"}
         /\ scheduling_requests[rid].status = "scheduled" =>
              scheduling_requests'[rid].status = "scheduled"
      ]_vars

\* C7 witness: a second reply has passed its status write on a request that an
\* earlier, completed reply had scheduled, while another request is pending.
C7_RescheduledStaysScheduled ==
    \E w1 \in Workers, w2 \in Workers :
        /\ w1 # w2
        /\ op[w1] = "reply_scheduling_email"
        /\ pc[w1] = "idle"
        /\ "meeting_time" \in DOMAIN result[w1]
        /\ op[w2] = "reply_scheduling_email"
        /\ pc[w2] = "reply_mail"
        /\ request_id[w2] = request_id[w1]
        /\ selected_slot_index[w2] # selected_slot_index[w1]
        /\ scheduling_requests[request_id[w1]].status = "scheduled"

\* C8: when the proposal email of send_scheduling_email is not delivered, the
\* call returns an error result carrying the request id, and the request it
\* created is in the store with status pending, its 56 offered slots and no
\* selected slot; the request of a failed send is never removed later.
C8_FailedSendKeepsRequest ==
    [][\A w \in Workers :
         /\ (pc[w] = "send_mail" /\ pc'[w] = "idle" /\ ~email_sent'[w]) =>
              /\ result'[w].status = "error"
              /\ "request_id" \in DOMAIN result'[w]
              /\ result'[w].request_id = request_id[w]
              /\ request_id[w] \in DOMAIN scheduling_requests'
              /\ scheduling_requests'[request_id[w]].status = "pending"
              /\ "selected_slot" \notin DOMAIN scheduling_requests'[request_id[w]]
              /\ Len(scheduling_requests'[request_id[w]].available_slots) = NumSlots
              /\ scheduling_requests'[request_id[w]] =
                   scheduling_requests[request_id[w]]
         /\ ( /\ op[w] = "send_scheduling_email"
              /\ pc[w] = "idle"
              /\ result[w].status = "error" ) =>
              request_id[w] \in DOMAIN scheduling_requests'
      ]_vars

\* C8 witness: a send has returned the delivery error, and a later reply on
\* the id it reported has scheduled that request.
C8_ScheduledAfterFailedSend ==
    \E w1 \in Workers, w2 \in Workers :
        /\ op[w1] = "send_scheduling_email"
        /\ pc[w1] = "idle"
        /\ result[w1].status = "error"
        /\ op[w2] = "reply_scheduling_email"
        /\ pc[w2] = "idle"
        /\ request_id[w2] = result[w1].request_id
        /\ "meeting_time" \in DOMAIN result[w2]
        /\ scheduling_requests[result[w1].request_id].status = "scheduled"
        /\ scheduling_requests[result[w1].request_id].selected_slot =
             result[w2].meeting_time

\* C9: with reply calls interleaved statement by statement, in every state a
\* scheduled record's selected_slot is the ISO text of one of its offered
\* slots; a record's selected_slot is the slot of the reply whose write of
\* selected_slot (line 148) came last; and once some reply has written and no
\* reply on the request stands between its two writes, the status is
\* scheduled.
C9_LastWriteWins ==
    \A rid \in DOMAIN scheduling_requests :
        LET r == scheduling_requests[rid]
            slots == r.available_slots
        IN /\ r.status = "scheduled" =>
                /\ "selected_slot" \in DOMAIN r
                /\ \E k \in 1..Len(slots) : r.selected_slot = isoformat(slots[k])
           /\ "selected_slot" \in DOMAIN r =>
                /\ last_update[rid] # << >>
                /\ r.selected_slot = isoformat(GetItem(slots, last_update[rid][1]))
           /\ ( /\ last_update[rid] # << >>
                /\ \A w \in Workers :
                     ~(pc[w] = "reply_set_status" /\ request_id[w] = rid) ) =>
                (r.status = "scheduled" /\ "selected_slot" \in DOMAIN r)

\* C9 witness: two replies race on one request: the first has written its slot
\* and not yet the status, the second has since written another slot and the
\* status, and the record holds the second one's slot.
C9_Race ==
    \E w1 \in Workers, w2 \in Workers :
        /\ w1 # w2
        /\ pc[w1] = "reply_set_status"
        /\ pc[w2] = "reply_mail"
        /\ request_id[w1] = request_id[w2]
        /\ selected_slot_index[w1] = 0
        /\ selected_slot_index[w2] = 1
        /\ scheduling_requests[request_id[w1]].status = "scheduled"
        /\ scheduling_requests[request_id[w1]].selected_slot =
             isoformat(selected_slot[w2])
        /\ selected_slot[w1] # selected_slot[w2]

---------------------------------------------------------------------------
(* Properties of the interval algebra *)

\* two intervals overlap: each starts before the other ends
Overlaps(a, b) == a[1] < b[2] /\ b[1] < a[2]

\* instant t lies in the half-open interval [start, end)
Covers(iv, t) == iv[1] <= t /\ t < iv[2]

\* how many of the free intervals and merged busy intervals cover instant t
CoverCount(t) ==
    Cardinality({k \in 1..Len(free_intervals) : Covers(free_intervals[k], t)})
  + Cardinality({k \in 1..Len(merged) : Covers(merged[k], t)})

\* every instant of the window is covered exactly once, every other instant
\* not at all (all end points are instants of Times, so they decide it)
ExactCover ==
    \A t \in Times :
        CoverCount(t) = IF Covers(window, t) THEN 1 ELSE 0

NoFreeOverlapsBusy ==
    \A f \in 1..Len(free_intervals), b \in 1..Len(intervals) :
        ~Overlaps(free_intervals[f], intervals[b])

BusyWithinWindow ==
    \A b \in 1..Len(intervals) :
        window[1] <= intervals[b][1] /\ intervals[b][2] <= window[2]

\* C3: the output of merge_intervals is sorted by start, every adjacent pair
\* of output intervals is at least MINIMUM_INTERVAL_MINUTES apart
\* (next.start - current.end >= 30), and no two output intervals overlap.
C3_MergedSortedAndApart ==
    cal_pc = "merged" =>
        /\ \A k \in 1..(Len(merged) - 1) :
              /\ merged[k][1] <= merged[k + 1][1]
              /\ merged[k + 1][1] - merged[k][2] >= MINIMUM_INTERVAL_MINUTES
        /\ \A a \in 1..Len(merged), b \in 1..Len(merged) :
              a # b => ~Overlaps(merged[a], merged[b])

\* C3 witness: a list of three intervals was merged into two: one pair was
\* collapsed and one pair stayed apart.
C3_MergedThreeIntoTwo ==
    /\ cal_pc = "merged"
    /\ Len(intervals) = 3
    /\ Len(merged) = 2
    /\ merged[1][1] < merged[1][2]

\* C4 as claimed: for every non-empty busy list and every window, no free
\* interval overlaps an input busy interval, and the free intervals together
\* with the merged busy intervals cover each instant of the window exactly
\* once and no instant outside it.
C4_FreeCoverAnyBusy ==
    (cal_pc = "free" /\ intervals # << >>) =>
        (NoFreeOverlapsBusy /\ ExactCover)

\* C4 as amended: the same for every non-empty busy list whose intervals lie
\* within the window (start_time <= start and end <= end_time for each).
C4_FreeCoverBusyInWindow ==
    (cal_pc = "free" /\ intervals # << >> /\ BusyWithinWindow) =>
        (NoFreeOverlapsBusy /\ ExactCover)

\* C4 witness: two busy intervals inside the window were merged into one, and
\* free time was produced before and after it.
C4_FreeAroundMergedBusy ==
    /\ cal_pc = "free"
    /\ Len(intervals) = 2
    /\ BusyWithinWindow
    /\ intervals[1][2] < intervals[2][1]
    /\ Len(merged) = 1
    /\ Len(free_intervals) = 2

\* C5: merge_intervals is idempotent: merging the output of merge_intervals
\* gives that output again, and the empty list is merged to the empty list.
C5_MergeIdempotent ==
    /\ cal_pc = "remerged" => remerged = merged
    /\ (cal_pc \in {"merged", "remerged"} /\ intervals = << >>) => merged = << >>

\* C5 witness: a list of three intervals was merged into two, one of them a
\* collapsed pair, and merging those two again has been computed.
C5_RemergedTwo ==
    /\ cal_pc = "remerged"
    /\ Len(intervals) = 3
    /\ Len(remerged) = 2
    /\ remerged[1][2] - remerged[1][1] > MINIMUM_INTERVAL_MINUTES

\* C10: two intervals are collapsed into one exactly when the gap between the
\* end of the earlier and the start of the later is less than
\* MINIMUM_INTERVAL_MINUTES; at a gap of exactly 30 minutes or more they stay
\* separate.  (intervals is in start order once merge_intervals has run.)
C10_MergeIffGapBelowMinimum ==
    (cal_pc = "merged" /\ Len(intervals) = 2) =>
        ( Len(merged) = 1
          <=> intervals[2][1] - intervals[1][2] < MINIMUM_INTERVAL_MINUTES )

\* What the code does for C10: two intervals are collapsed exactly when the
\* gap is at most MINIMUM_INTERVAL_MINUTES.
C10_MergeIffGapAtMostMinimum ==
    (cal_pc = "merged" /\ Len(intervals) = 2) =>
        ( Len(merged) = 1
          <=> intervals[2][1] - intervals[1][2] <= MINIMUM_INTERVAL_MINUTES )

===========================================================================
